---- MODULE Spec2Model ----
(***************************************************************************)
(* genpolicy: the Deployment resource (src/tools/genpolicy/src/            *)
(* deployment.rs) and its implementation of yaml::K8sResource.             *)
(*                                                                         *)
(* A Deployment is the typed projection of a YAML document plus the        *)
(* retained raw document (doc_mapping).  init rewrites the pod spec through*)
(* the suspending yaml::k8s_resource_init and then captures the raw        *)
(* document; serialize stamps the policy annotation into the retained raw  *)
(* document and renders it; the remaining operations are accessors.        *)
(***************************************************************************)
EXTENDS Integers, Sequences, FiniteSets, TLC

VARIABLES D, self, pc, idx, ret, aborted, policies

vars == <<D, self, pc, idx, ret, aborted, policies>>

(***************************************************************************)
(* Bounds of the model.                                                    *)
(***************************************************************************)
MaxContainers == 2
MaxSerialize == 2

(***************************************************************************)
(* Option<T>: None is the empty tuple, Some(x) the one-element tuple.      *)
(***************************************************************************)
None == <<>>
Some(x) == <<x>>

\* serde_yaml::Value::Null, the Default of the #[serde(skip)] doc_mapping
Null == <<>>

(***************************************************************************)
(* Values the manifests are built from.                                    *)
(***************************************************************************)
PolicyKey == "io.katacontainers.config.agent.policy"
MetadataPath == <<"spec", "template", "metadata">>

Policies == {"policy-text", "policy-other"}

\* the containers a manifest can declare (pod::Container: name, image, volumeMounts)
ContainerUniverse ==
    { [name |-> "app", image |-> "app:latest", volumeMounts |-> <<"data">>],
      [name |-> "sidecar", image |-> "sidecar:v1", volumeMounts |-> <<>>] }

RECURSIVE SeqsUpTo(_, _)
SeqsUpTo(S, n) ==
    IF n = 0 THEN { <<>> }
    ELSE LET shorter == SeqsUpTo(S, n - 1)
         IN  shorter \cup { Append(s, x) : s \in { t \in shorter : Len(t) = n - 1 }, x \in S }

\* ordered annotation mappings as they appear in a raw document
AnnotationMaps ==
    { None,
      Some(<<>>),
      Some(<< <<"owner", "team-a">> >>),
      Some(<< <<PolicyKey, "policy-old">>, <<"owner", "team-a">> >>) }

\* the head of a manifest: the top-level metadata, spec.replicas and
\* minReadySeconds, a field DeploymentSpec does not model
ManifestHeads ==
    { [metadata |-> [namespace |-> None, annotations |-> Some(<< <<"top", "level">> >>)],
       replicas |-> None, minReadySeconds |-> None],
      [metadata |-> [namespace |-> Some("prod"), annotations |-> None],
       replicas |-> Some(0), minReadySeconds |-> Some(5)],
      [metadata |-> [namespace |-> Some("prod"), annotations |-> None],
       replicas |-> Some(1), minReadySeconds |-> None],
      [metadata |-> [namespace |-> None, annotations |-> Some(<< <<"top", "level">> >>)],
       replicas |-> Some(3), minReadySeconds |-> Some(5)] }

VolumeChoices == { None, Some(<<>>), Some(<<"data">>) }

HostNetworkChoices == { None, Some(TRUE), Some(FALSE) }

\* the raw documents (serde_yaml mappings) a Deployment can be parsed from
RawDocuments ==
    { [metadata |-> r.metadata,
       spec |-> [replicas |-> r.replicas,
                 minReadySeconds |-> r.minReadySeconds,
                 template |-> [metadata |-> [annotations |-> a],
                               spec |-> [containers |-> cs,
                                         volumes |-> v,
                                         hostNetwork |-> h]]]] :
        r \in ManifestHeads, a \in AnnotationMaps,
        cs \in SeqsUpTo(ContainerUniverse, MaxContainers),
        v \in VolumeChoices, h \in HostNetworkChoices }

(***************************************************************************)
(* BTreeMap<String, String> of the typed schema: a function on its keys.   *)
(***************************************************************************)
ToBTreeMap(pairs) ==
    LET keys == { pairs[i][1] : i \in 1..Len(pairs) }
    IN  [ k \in keys |-> pairs[CHOOSE i \in 1..Len(pairs) :
                                 /\ pairs[i][1] = k
                                 /\ \A j \in 1..Len(pairs) : pairs[j][1] = k => j <= i][2] ]

TypedAnnotations(opt) == IF opt = None THEN None ELSE Some(ToBTreeMap(opt[1]))

(***************************************************************************)
(* serde_yaml::from_value into Deployment: only the modelled fields are    *)
(* kept; doc_mapping is skipped and takes its default.                     *)
(***************************************************************************)
ParseDeployment(doc) ==
    [metadata |-> [namespace |-> doc.metadata.namespace,
                   annotations |-> TypedAnnotations(doc.metadata.annotations)],
     spec |-> [replicas |-> doc.spec.replicas,
               template |->
                   [metadata |-> [annotations |->
                                    TypedAnnotations(doc.spec.template.metadata.annotations)],
                    spec |-> doc.spec.template.spec]],
     doc_mapping |-> Null]

(***************************************************************************)
(* serde_yaml::to_string: the document as a sequence of text lines         *)
(* <<path, index, key, value>>.  Absent optional fields produce no line,   *)
(* an empty mapping renders as {} and an empty list as [].                 *)
(***************************************************************************)
RECURSIVE Flatten(_)
Flatten(ss) == IF ss = <<>> THEN <<>> ELSE Head(ss) \o Flatten(Tail(ss))

BoolStr(b) == IF b THEN "true" ELSE "false"

IntStr(opt) == IF opt = None THEN None ELSE Some(ToString(opt[1]))

OptBoolStr(opt) == IF opt = None THEN None ELSE Some(BoolStr(opt[1]))

\* an optional scalar, already in its text form
ScalarLine(path, opt) ==
    IF opt = None THEN <<>> ELSE << <<path, "", "", opt[1]>> >>

MappingLines(path, opt) ==
    IF opt = None THEN <<>>
    ELSE IF opt[1] = <<>> THEN << <<path, "", "", "{}">> >>
    ELSE [ i \in 1..Len(opt[1]) |-> <<path, "", opt[1][i][1], opt[1][i][2]>> ]

VolumeLines(path, opt) ==
    IF opt = None THEN <<>>
    ELSE IF opt[1] = <<>> THEN << <<path, "", "", "[]">> >>
    ELSE [ i \in 1..Len(opt[1]) |-> <<path, ToString(i), "name", opt[1][i]>> ]

ContainerLines(path, cs) ==
    IF cs = <<>> THEN << <<path, "", "", "[]">> >>
    ELSE Flatten([ i \in 1..Len(cs) |->
            << <<path, ToString(i), "name", cs[i].name>>,
               <<path, ToString(i), "image", cs[i].image>> >>
            \o [ j \in 1..Len(cs[i].volumeMounts) |->
                   <<path, ToString(i), "volumeMounts", cs[i].volumeMounts[j]>> ] ])

Render(value) ==
    IF value = Null THEN << <<"", "", "", "null">> >>
    ELSE LET d == value[1]
         IN  ScalarLine("metadata.namespace", d.metadata.namespace)
             \o MappingLines("metadata.annotations", d.metadata.annotations)
             \o ScalarLine("spec.replicas", IntStr(d.spec.replicas))
             \o ScalarLine("spec.minReadySeconds", IntStr(d.spec.minReadySeconds))
             \o MappingLines("spec.template.metadata.annotations",
                             d.spec.template.metadata.annotations)
             \o ContainerLines("spec.template.spec.containers",
                               d.spec.template.spec.containers)
             \o VolumeLines("spec.template.spec.volumes", d.spec.template.spec.volumes)
             \o ScalarLine("spec.template.spec.hostNetwork",
                           OptBoolStr(d.spec.template.spec.hostNetwork))

(***************************************************************************)
(* serde_yaml::from_str: the document a rendered text denotes.             *)
(***************************************************************************)
ScalarInts == {0, 1, 3, 5}

StrInt(opt) ==
    IF opt = None THEN None ELSE Some(CHOOSE n \in ScalarInts : ToString(n) = opt[1])

StrBool(opt) == IF opt = None THEN None ELSE Some(opt[1] = "true")

LinesAt(lines, path) == LET at(l) == l[1] = path IN SelectSeq(lines, at)

ParseScalar(lines, path) ==
    LET sel == LinesAt(lines, path)
    IN  IF sel = <<>> THEN None ELSE Some(sel[1][4])

ParseMapping(lines, path) ==
    LET sel == LinesAt(lines, path)
    IN  IF sel = <<>> THEN None
        ELSE IF sel[1][3] = "" /\ sel[1][4] = "{}" THEN Some(<<>>)
        ELSE Some([ i \in 1..Len(sel) |-> <<sel[i][3], sel[i][4]>> ])

ParseVolumes(lines, path) ==
    LET sel == LinesAt(lines, path)
    IN  IF sel = <<>> THEN None
        ELSE IF sel[1][4] = "[]" /\ sel[1][3] = "" THEN Some(<<>>)
        ELSE Some([ i \in 1..Len(sel) |-> sel[i][4] ])

ParseContainers(lines, path) ==
    LET sel == LinesAt(lines, path)
        isName(l) == l[3] = "name"
        names == SelectSeq(sel, isName)
        field(i, key) == LET f(l) == l[2] = ToString(i) /\ l[3] = key
                         IN  SelectSeq(sel, f)
    IN  [ i \in 1..Len(names) |->
            [name |-> names[i][4],
             image |-> field(i, "image")[1][4],
             volumeMounts |-> [ j \in 1..Len(field(i, "volumeMounts")) |->
                                  field(i, "volumeMounts")[j][4] ]] ]

ParseText(lines) ==
    IF lines = << <<"", "", "", "null">> >> THEN Null
    ELSE Some(
        [metadata |-> [namespace |-> ParseScalar(lines, "metadata.namespace"),
                       annotations |-> ParseMapping(lines, "metadata.annotations")],
         spec |-> [replicas |-> StrInt(ParseScalar(lines, "spec.replicas")),
                   minReadySeconds |-> StrInt(ParseScalar(lines, "spec.minReadySeconds")),
                   template |->
                     [metadata |-> [annotations |->
                         ParseMapping(lines, "spec.template.metadata.annotations")],
                      spec |-> [containers |->
                                  ParseContainers(lines, "spec.template.spec.containers"),
                                volumes |->
                                  ParseVolumes(lines, "spec.template.spec.volumes"),
                                hostNetwork |->
                                  StrBool(ParseScalar(lines,
                                                      "spec.template.spec.hostNetwork"))]]]])

(***************************************************************************)
(* yaml::add_policy_annotation(ancestor, metadata_path, policy): walks the *)
(* path from the document root and sets the policy annotation in the       *)
(* annotations mapping found there, creating the mapping when the section  *)
(* declares none and replacing the value of an existing policy entry in    *)
(* place.  Being asked to write past a missing parent is an assertion      *)
(* failure.                                                                *)
(***************************************************************************)
HasPath(value, path) == value /= Null /\ path = MetadataPath

SetEntry(pairs, key, val) ==
    IF \E i \in 1..Len(pairs) : pairs[i][1] = key
    THEN [ i \in 1..Len(pairs) |-> IF pairs[i][1] = key THEN <<key, val>> ELSE pairs[i] ]
    ELSE Append(pairs, <<key, val>>)

add_policy_annotation(value, path, policy) ==
    IF ~HasPath(value, path)
    THEN [ok |-> FALSE, doc |-> value]
    ELSE LET old == value[1].spec.template.metadata.annotations
             new == IF old = None THEN Some(<< <<PolicyKey, policy>> >>)
                    ELSE Some(SetEntry(old[1], PolicyKey, policy))
         IN  [ok |-> TRUE,
              doc |-> Some([value[1] EXCEPT !.spec.template.metadata.annotations = new])]

(***************************************************************************)
(* The resolver step inside yaml::k8s_resource_init: a container's image   *)
(* reference is normalised (tag to digest) by the registry or the cache.   *)
(* Both routes give the same reference; a digest reference is kept.        *)
(***************************************************************************)
ResolveImage(image, use_cache) ==
    CASE image = "app:latest" -> "app@sha256:aa"
      [] image = "sidecar:v1" -> "sidecar@sha256:bb"
      [] OTHER -> image

ResolveContainer(c, use_cache) == [c EXCEPT !.image = ResolveImage(c.image, use_cache)]

ResolvedContainers(cs) == [ i \in 1..Len(cs) |-> ResolveContainer(cs[i], FALSE) ]

(***************************************************************************)
(* Accessors of impl yaml::K8sResource for Deployment.                     *)
(***************************************************************************)
get_sandbox_name_named(d) ==
    IF d.spec.replicas = Some(1) THEN Some("deployment") ELSE None

get_sandbox_name(d) == None

\* obj_meta::ObjectMeta::get_namespace
ObjectMeta_get_namespace(m) == IF m.namespace = None THEN "default" ELSE m.namespace[1]

get_namespace(d) == ObjectMeta_get_namespace(d.metadata)

\* yaml::get_container_mounts_and_storages: one mount and one storage are
\* appended for every declared volume the container mounts
RECURSIVE yaml_get_container_mounts_and_storages(_, _, _, _, _)
yaml_get_container_mounts_and_storages(policy_mounts, storages, container, agent_policy, volumes) ==
    IF volumes = <<>> THEN [mounts |-> policy_mounts, storages |-> storages]
    ELSE LET v == Head(volumes)
             used == \E j \in 1..Len(container.volumeMounts) : container.volumeMounts[j] = v
         IN  yaml_get_container_mounts_and_storages(
                 IF used THEN Append(policy_mounts, <<"mount", v>>) ELSE policy_mounts,
                 IF used THEN Append(storages, <<"storage", v>>) ELSE storages,
                 container, agent_policy, Tail(volumes))

get_container_mounts_and_storages_always(d, policy_mounts, storages, container, agent_policy) ==
    LET volumes == IF d.spec.template.spec.volumes = None THEN <<"data">>
                   ELSE d.spec.template.spec.volumes[1]
        r == yaml_get_container_mounts_and_storages(policy_mounts, storages, container,
                                                    agent_policy, volumes)
    IN  [mounts |-> r.mounts, storages |-> r.storages, helper |-> TRUE]

\* the result carries the two caller lists as left by the call, and whether
\* the shared helper was invoked
get_container_mounts_and_storages(d, policy_mounts, storages, container, agent_policy) ==
    IF d.spec.template.spec.volumes /= None
    THEN LET r == yaml_get_container_mounts_and_storages(
                      policy_mounts, storages, container, agent_policy,
                      d.spec.template.spec.volumes[1])
         IN  [mounts |-> r.mounts, storages |-> r.storages, helper |-> TRUE]
    ELSE [mounts |-> policy_mounts, storages |-> storages, helper |-> FALSE]

get_containers_reversed(d) ==
    LET cs == d.spec.template.spec.containers
    IN  [ i \in 1..Len(cs) |-> cs[Len(cs) + 1 - i] ]

get_containers(d) == d.spec.template.spec.containers

get_annotations_toplevel(d) ==
    IF d.metadata.annotations /= None
    THEN Some(d.metadata.annotations[1])
    ELSE None

get_annotations(d) ==
    IF d.spec.template.metadata.annotations /= None
    THEN Some(d.spec.template.metadata.annotations[1])
    ELSE None

use_host_network_default_true(d) ==
    IF d.spec.template.spec.hostNetwork /= None
    THEN d.spec.template.spec.hostNetwork[1]
    ELSE TRUE

use_host_network(d) ==
    IF d.spec.template.spec.hostNetwork /= None
    THEN d.spec.template.spec.hostNetwork[1]
    ELSE FALSE

\* policy::AgentPolicy::generate_policy(resource): a function of what the
\* resource shows through the interface
AgentPolicy_generate_policy(agent_policy, d) ==
    <<agent_policy,
      get_sandbox_name(d),
      get_namespace(d),
      get_containers(d),
      [ i \in 1..Len(get_containers(d)) |->
          get_container_mounts_and_storages(d, <<>>, <<>>, get_containers(d)[i], agent_policy) ],
      get_annotations(d),
      use_host_network(d)>>

generate_policy(d, agent_policy) == AgentPolicy_generate_policy(agent_policy, d)

(***************************************************************************)
(* serialize(&mut self, policy) -> String.  The result is the instance as  *)
(* left by the call, the outcome (the call returns a String or panics) and *)
(* the returned text.                                                      *)
(***************************************************************************)
\* renders the typed schema instead of the retained document
serialize_typed(d, policy) ==
    LET r == add_policy_annotation(d.doc_mapping, MetadataPath, policy)
        typed == IF r.ok
                 THEN Some([r.doc[1] EXCEPT !.spec.minReadySeconds = None,
                                            !.spec.template.spec = d.spec.template.spec])
                 ELSE r.doc
    IN  IF r.ok
        THEN [self |-> [d EXCEPT !.doc_mapping = typed], kind |-> "ok", val |-> Render(typed)]
        ELSE [self |-> d, kind |-> "panic", val |-> <<>>]

\* renders the document before the annotation is injected
serialize_stale(d, policy) ==
    LET r == add_policy_annotation(d.doc_mapping, MetadataPath, policy)
    IN  IF r.ok
        THEN [self |-> [d EXCEPT !.doc_mapping = r.doc], kind |-> "ok",
              val |-> Render(d.doc_mapping)]
        ELSE [self |-> d, kind |-> "panic", val |-> <<>>]

\* also stamps the policy into the typed pod template annotations
serialize_stamps_typed(d, policy) ==
    LET r == add_policy_annotation(d.doc_mapping, MetadataPath, policy)
    IN  IF r.ok
        THEN [self |-> [d EXCEPT !.doc_mapping = r.doc,
                                 !.spec.template.metadata.annotations =
                                     TypedAnnotations(
                                         r.doc[1].spec.template.metadata.annotations)],
              kind |-> "ok", val |-> Render(r.doc)]
        ELSE [self |-> d, kind |-> "panic", val |-> <<>>]

serialize(d, policy) ==
    LET r == add_policy_annotation(d.doc_mapping, MetadataPath, policy)
    IN  IF r.ok
        THEN [self |-> [d EXCEPT !.doc_mapping = r.doc], kind |-> "ok", val |-> Render(r.doc)]
        ELSE [self |-> d, kind |-> "panic", val |-> <<>>]

(***************************************************************************)
(* State machine.                                                          *)
(*   D        the raw document the instance was parsed from                *)
(*   self     the Deployment                                               *)
(*   pc       "parsed": init not called; "init_await": init suspended at   *)
(*            the resolver; "ready": init returned; "cancelled": the init  *)
(*            future was dropped while suspended                           *)
(*   idx      the container the suspended init is resolving (0 otherwise)  *)
(*   ret      the last call on the instance and what it returned           *)
(*   aborted  the process panicked                                         *)
(*   policies the policies passed to serialize so far                      *)
(***************************************************************************)
NoCall == [op |-> "none", kind |-> "ok", arg |-> <<>>, val |-> <<>>]

Returned(op, arg, val) == [op |-> op, kind |-> "ok", arg |-> arg, val |-> val]

Init ==
    /\ D \in RawDocuments
    /\ self = ParseDeployment(D)
    /\ pc = "parsed"
    /\ idx = 0
    /\ ret = NoCall
    /\ aborted = FALSE
    /\ policies = <<>>

\* a call on the instance needs the exclusive or shared borrow init holds
\* while it is suspended
Callable == pc \in {"parsed", "ready", "cancelled"} /\ ~aborted

\* init up to its first suspension: k8s_resource_init awaits the resolver
\* once per container; with no container it does not suspend and init
\* returns after capturing the document
InitBegin ==
    /\ pc = "parsed" /\ ~aborted
    /\ \E use_cache \in BOOLEAN, doc_mapping \in {D} :
         IF self.spec.template.spec.containers = <<>>
         THEN /\ self' = [self EXCEPT !.doc_mapping = Some(doc_mapping)]
              /\ pc' = "ready"
              /\ idx' = 0
         ELSE /\ self' = self
              /\ pc' = "init_await"
              /\ idx' = 1
    /\ ret' = Returned("init", <<>>, <<>>)
    /\ UNCHANGED <<D, aborted, policies>>

\* the resolver answers: the container's image reference is rewritten in
\* place; after the last container k8s_resource_init returns and init
\* captures the document
InitResume ==
    /\ pc = "init_await" /\ ~aborted
    /\ \E use_cache \in BOOLEAN, doc_mapping \in {D} :
         LET cs == self.spec.template.spec.containers
             rewritten == [self EXCEPT !.spec.template.spec.containers[idx] =
                                          ResolveContainer(cs[idx], use_cache)]
         IN  IF idx = Len(cs)
             THEN /\ self' = [rewritten EXCEPT !.doc_mapping = Some(doc_mapping)]
                  /\ pc' = "ready"
                  /\ idx' = 0
             ELSE /\ self' = rewritten
                  /\ pc' = "init_await"
                  /\ idx' = idx + 1
    /\ UNCHANGED <<D, ret, aborted, policies>>

\* the caller drops the suspended init future (cancellation, timeout)
InitCancel ==
    /\ pc = "init_await" /\ ~aborted
    /\ pc' = "cancelled"
    /\ idx' = 0
    /\ UNCHANGED <<D, self, ret, aborted, policies>>

GetSandboxName ==
    /\ Callable
    /\ ret' = Returned("get_sandbox_name", <<>>, get_sandbox_name(self))
    /\ UNCHANGED <<D, self, pc, idx, aborted, policies>>

GetNamespace ==
    /\ Callable
    /\ ret' = Returned("get_namespace", <<>>, get_namespace(self))
    /\ UNCHANGED <<D, self, pc, idx, aborted, policies>>

CallerLists == { <<>>, << <<"mount", "preset">> >> }

AgentPolicies == { "rules-a", "rules-b" }

GetContainerMountsAndStorages ==
    /\ Callable
    /\ \E policy_mounts \in CallerLists, storages \in CallerLists,
          container \in ContainerUniverse, agent_policy \in AgentPolicies :
         ret' = Returned("get_container_mounts_and_storages",
                         [mounts |-> policy_mounts, storages |-> storages],
                         get_container_mounts_and_storages(self, policy_mounts, storages,
                                                           container, agent_policy))
    /\ UNCHANGED <<D, self, pc, idx, aborted, policies>>

GeneratePolicy ==
    /\ Callable
    /\ \E agent_policy \in AgentPolicies :
         ret' = Returned("generate_policy", agent_policy, generate_policy(self, agent_policy))
    /\ UNCHANGED <<D, self, pc, idx, aborted, policies>>

Serialize ==
    /\ Callable
    /\ Len(policies) < MaxSerialize
    /\ \E policy \in Policies :
         LET r == serialize(self, policy)
         IN  /\ self' = r.self
             /\ ret' = [op |-> "serialize", kind |-> r.kind, arg |-> policy, val |-> r.val]
             /\ aborted' = (r.kind = "panic")
             /\ policies' = Append(policies, policy)
    /\ UNCHANGED <<D, pc, idx>>

GetContainers ==
    /\ Callable
    /\ ret' = Returned("get_containers", <<>>, get_containers(self))
    /\ UNCHANGED <<D, self, pc, idx, aborted, policies>>

GetAnnotations ==
    /\ Callable
    /\ ret' = Returned("get_annotations", <<>>, get_annotations(self))
    /\ UNCHANGED <<D, self, pc, idx, aborted, policies>>

UseHostNetwork ==
    /\ Callable
    /\ ret' = Returned("use_host_network", <<>>, use_host_network(self))
    /\ UNCHANGED <<D, self, pc, idx, aborted, policies>>

Next ==
    \/ InitBegin
    \/ InitResume
    \/ InitCancel
    \/ GetSandboxName
    \/ GetNamespace
    \/ GetContainerMountsAndStorages
    \/ GeneratePolicy
    \/ Serialize
    \/ GetContainers
    \/ GetAnnotations
    \/ UseHostNetwork

Spec == Init /\ [][Next]_vars

(***************************************************************************)
(* Vocabulary of the properties.                                           *)
(***************************************************************************)
OrigContainers == D.spec.template.spec.containers

Containers == self.spec.template.spec.containers

\* the entries of an optional annotations mapping, an absent mapping having none
Entries(opt) == IF opt = None THEN <<>> ELSE opt[1]

OtherEntries(opt) == LET other(e) == e[1] /= PolicyKey IN SelectSeq(Entries(opt), other)

PolicyValues(opt) ==
    LET pol(e) == e[1] = PolicyKey
        sel == SelectSeq(Entries(opt), pol)
    IN  [ i \in 1..Len(sel) |-> sel[i][2] ]

TemplateAnnotations(doc) == doc.spec.template.metadata.annotations

\* the document with the policy entry deleted from the pod template annotations
RemovePolicyAnnotation(doc) ==
    IF TemplateAnnotations(doc) = None THEN doc
    ELSE [doc EXCEPT !.spec.template.metadata.annotations =
                         Some(OtherEntries(TemplateAnnotations(doc)))]

\* doc differs from orig at most in the policy entry of the pod template annotations
SameOutsidePolicy(doc, orig) ==
    /\ doc.metadata = orig.metadata
    /\ doc.spec.replicas = orig.spec.replicas
    /\ doc.spec.minReadySeconds = orig.spec.minReadySeconds
    /\ doc.spec.template.spec = orig.spec.template.spec
    /\ OtherEntries(TemplateAnnotations(doc)) = OtherEntries(TemplateAnnotations(orig))

SerializeReturned == ret.op = "serialize" /\ ret.kind = "ok"

\* C1 as stated: after init on a Deployment parsed from D, the text serialize(P)
\* returns denotes a document that differs from D only by the policy
\* annotation, and deleting that annotation gives back D.
C1_RoundTrip ==
    SerializeReturned =>
        /\ ParseText(ret.val) /= Null
        /\ SameOutsidePolicy(ParseText(ret.val)[1], D)
        /\ RemovePolicyAnnotation(ParseText(ret.val)[1]) = D

\* C1 amended: the text serialize(P) returns denotes a document whose fields
\* outside the pod template annotations are D's (replicas, unmodelled fields
\* and the containers as authored, whatever init rewrote in the typed pod
\* spec), whose non-policy annotations are D's in order, and which has exactly
\* one policy annotation, with value P; deleting it gives back D when D
\* declares a pod template annotations mapping without a policy entry.
C1_FrameOfSerialize ==
    SerializeReturned =>
        /\ ParseText(ret.val) /= Null
        /\ SameOutsidePolicy(ParseText(ret.val)[1], D)
        /\ PolicyValues(TemplateAnnotations(ParseText(ret.val)[1])) = <<ret.arg>>
        /\ (/\ TemplateAnnotations(D) /= None
            /\ PolicyValues(TemplateAnnotations(D)) = <<>>)
           => RemovePolicyAnnotation(ParseText(ret.val)[1]) = D

C1_Witness ==
    /\ SerializeReturned
    /\ D.spec.replicas = Some(3)
    /\ D.spec.minReadySeconds /= None
    /\ Containers /= OrigContainers
    /\ TemplateAnnotations(D) = Some(<< <<"owner", "team-a">> >>)

\* C2: get_containers returns the containers of spec.template.spec, as many
\* as the source manifest declares and in its order; before init they are the
\* declared containers themselves.
C2_ContainersInOrder ==
    ret.op = "get_containers" =>
        /\ ret.val = Containers
        /\ Len(ret.val) = Len(OrigContainers)
        /\ \A i \in 1..Len(ret.val) :
             /\ ret.val[i].name = OrigContainers[i].name
             /\ ret.val[i].volumeMounts = OrigContainers[i].volumeMounts
        /\ pc = "parsed" => ret.val = OrigContainers

C2_Witness ==
    /\ ret.op = "get_containers"
    /\ pc = "ready"
    /\ Len(ret.val) >= 2
    /\ ret.val[1].name = "sidecar"
    /\ ret.val[2].name = "app"

\* C3: get_annotations returns the pod template's annotations, not the
\* top-level ones: none when the template declares none, a present mapping
\* equal to the declared one otherwise (an empty one for an empty mapping).
C3_TemplateAnnotations ==
    ret.op = "get_annotations" =>
        /\ TemplateAnnotations(D) = None => ret.val = None
        /\ TemplateAnnotations(D) /= None =>
             /\ ret.val /= None
             /\ DOMAIN ret.val[1] =
                    { TemplateAnnotations(D)[1][i][1] :
                        i \in 1..Len(TemplateAnnotations(D)[1]) }
             /\ \A i \in 1..Len(TemplateAnnotations(D)[1]) :
                  ret.val[1][TemplateAnnotations(D)[1][i][1]] =
                      TemplateAnnotations(D)[1][i][2]

C3_Witness ==
    /\ ret.op = "get_annotations"
    /\ TemplateAnnotations(D) = None
    /\ D.metadata.annotations /= None
    /\ ret.val = None

\* C4: use_host_network returns false when hostNetwork is not declared and
\* the declared boolean otherwise.
C4_HostNetworkDefaultFalse ==
    ret.op = "use_host_network" =>
        /\ D.spec.template.spec.hostNetwork = None => ret.val = FALSE
        /\ D.spec.template.spec.hostNetwork /= None =>
             ret.val = D.spec.template.spec.hostNetwork[1]

C4_Witness ==
    /\ ret.op = "use_host_network"
    /\ D.spec.template.spec.hostNetwork = None
    /\ ret.val = FALSE

\* C5: with no volume list declared, get_container_mounts_and_storages
\* leaves both caller lists as passed in and does not fail; the shared helper
\* is invoked only when a volume list is declared.
C5_NoVolumesNoOp ==
    ret.op = "get_container_mounts_and_storages" =>
        /\ ret.kind = "ok"
        /\ self.spec.template.spec.volumes = None =>
             /\ ret.val.mounts = ret.arg.mounts
             /\ ret.val.storages = ret.arg.storages
        /\ ret.val.helper => self.spec.template.spec.volumes /= None

C5_Witness ==
    /\ ret.op = "get_container_mounts_and_storages"
    /\ self.spec.template.spec.volumes = None
    /\ Containers /= <<>>
    /\ ret.arg.mounts = <<>>
    /\ ret.val.mounts = <<>>
    /\ ret.val.storages = <<>>

\* C6: get_sandbox_name is none in every state of the instance, whatever the
\* replica count, and every call returned none.
C6_SandboxNameNone ==
    /\ get_sandbox_name(self) = None
    /\ ret.op = "get_sandbox_name" => ret.val = None

C6_Witness ==
    /\ ret.op = "get_sandbox_name"
    /\ D.spec.replicas = Some(1)
    /\ pc = "ready"
    /\ policies /= <<>>

\* the typed schema: the instance without the retained raw document
TypedSchema(d) == [metadata |-> d.metadata, spec |-> d.spec]

AccessorOps ==
    { "get_sandbox_name", "get_namespace", "get_container_mounts_and_storages",
      "generate_policy", "get_containers", "get_annotations", "use_host_network" }

\* a step in which an accessor was called and returned
AccessorStep == ret'.op \in AccessorOps /\ pc' = pc /\ policies' = policies

\* a step in which serialize was called
SerializeStep == policies' /= policies

\* C7 as stated: every interface operation other than init returns without
\* aborting and leaves the typed schema and the retained raw document as
\* they were.
C7_AllPure ==
    [][(AccessorStep \/ SerializeStep) => (self' = self /\ ~aborted' /\ ret'.kind = "ok")]_vars

\* C7 amended: every interface operation other than init and serialize
\* returns without aborting and leaves the typed schema and the retained raw
\* document as they were; serialize leaves the typed schema as it was and
\* changes only the retained raw document.
C7_AccessorsPure ==
    [][/\ AccessorStep => (self' = self /\ ~aborted' /\ ret'.kind = "ok")
       /\ SerializeStep => TypedSchema(self') = TypedSchema(self)]_vars

C7_Witness ==
    /\ SerializeReturned
    /\ self.doc_mapping /= Some(D)
    /\ TypedSchema(self) /= TypedSchema(ParseDeployment(D))

\* C8 as stated: wherever init is suspended or abandoned the pod spec is
\* either the parsed original or fully resolved, an abandoned init leaves the
\* typed schema as parsed, and a rewritten pod spec is never paired with a
\* retained raw document that has not been captured.
C8_InitAllOrNothing ==
    pc \in {"init_await", "cancelled"} =>
        /\ Containers = OrigContainers \/ Containers = ResolvedContainers(OrigContainers)
        /\ pc = "cancelled" => TypedSchema(self) = TypedSchema(ParseDeployment(D))
        /\ Containers /= OrigContainers => self.doc_mapping /= Null

\* C9 as stated: when the retained raw document has no section at
\* spec.template.metadata, serialize reports the failed injection as an
\* explicit error value and neither aborts nor returns a document text.
C9_InjectionFailureReturned ==
    (ret.op = "serialize" /\ ~HasPath(self.doc_mapping, MetadataPath)) =>
        /\ ret.kind = "err"
        /\ ~aborted

\* what C10 requires of the retained document and of the returned text after
\* serialize(policy)
OnePolicy(doc, text, policy) ==
    /\ doc /= Null
    /\ SameOutsidePolicy(doc[1], D)
    /\ PolicyValues(TemplateAnnotations(doc[1])) = <<policy>>
    /\ text = Render(doc)
    /\ ParseText(text) = doc

\* C10: after init, every serialize(Pn) leaves a retained document, and
\* returns its text, that is D with exactly one policy annotation, valued Pn,
\* however many serialize calls came before; a repeated serialize(P) returns
\* the same text.
C10_LastPolicyWins ==
    [][(SerializeStep /\ pc = "ready") =>
          /\ ret'.kind = "ok"
          /\ OnePolicy(self'.doc_mapping, ret'.val, ret'.arg)
          /\ (ret.op = "serialize" /\ ret.arg = ret'.arg) => ret'.val = ret.val]_vars

C10_Witness ==
    /\ SerializeReturned
    /\ Len(policies) >= 2
    /\ policies[1] /= policies[2]
    /\ ret.arg = policies[Len(policies)]
    /\ PolicyValues(TemplateAnnotations(D)) = <<"policy-old">>

====
